---- MODULE Spec2Model ----
(***************************************************************************)
(* OSDR filter-options generator (osdr_filter_options_generator.py).       *)
(*                                                                         *)
(* Strings are TLA+ strings; a character is a string of length 1.  JSON    *)
(* objects are records; a key that may be absent is listed in the field    *)
(* "keys".  A python dict is an ordered sequence of [category, values]     *)
(* records when its iteration order is read by the code (the snapshot      *)
(* index), and a function category -> set of values otherwise.             *)
(***************************************************************************)
EXTENDS Integers, Sequences, FiniteSets, TLC

(***************************************************************************)
(* Bounds of the model.                                                    *)
(***************************************************************************)
MaxRows == 2
MaxPasses == 2

(***************************************************************************)
(* String primitives of python used by the program.                        *)
(***************************************************************************)
UpperChars == "ABCDEFGHIJKLMNOPQRSTUVWXYZ"
LowerChars == "abcdefghijklmnopqrstuvwxyz"

Char(s, k) == SubSeq(s, k, k)

\* str.lower() on one character.
LowerTable ==
    [c \in {Char(UpperChars, k) : k \in 1..Len(UpperChars)} |->
        Char(LowerChars, CHOOSE k \in 1..Len(UpperChars) : Char(UpperChars, k) = c)]

LowerChar(c) == IF c \in DOMAIN LowerTable THEN LowerTable[c] ELSE c

RECURSIVE Lower(_)
Lower(s) == IF s = "" THEN "" ELSE LowerChar(Char(s, 1)) \o Lower(SubSeq(s, 2, Len(s)))

RECURSIVE Strip(_)
Strip(s) ==
    IF s = "" THEN ""
    ELSE IF Char(s, 1) = " " THEN Strip(SubSeq(s, 2, Len(s)))
    ELSE IF Char(s, Len(s)) = " " THEN Strip(SubSeq(s, 1, Len(s) - 1))
    ELSE s

Contains(sub, s) ==
    \E k \in 1..(Len(s) - Len(sub) + 1) : SubSeq(s, k, k + Len(sub) - 1) = sub

StartsWith(s, prefix) ==
    Len(prefix) <= Len(s) /\ SubSeq(s, 1, Len(prefix)) = prefix

\* str.split(sep) for a one-character separator: the pieces between separators,
\* empty pieces kept.
RECURSIVE Split(_, _)
Split(s, sep) ==
    IF \A k \in 1..Len(s) : Char(s, k) # sep THEN <<s>>
    ELSE LET k == CHOOSE j \in 1..Len(s) :
                     /\ Char(s, j) = sep
                     /\ \A h \in 1..(j - 1) : Char(s, h) # sep
         IN <<SubSeq(s, 1, k - 1)>> \o Split(SubSeq(s, k + 1, Len(s)), sep)

Last(seq) == seq[Len(seq)]

\* any(x in s for x in subs)
AnyIn(subs, s) == \E x \in subs : Contains(x, s)

\* norm: "" for a falsy value, else strip().lower().  Every value of the
\* model is a string, and " " is its only whitespace character.
Norm(s) == IF s = "" THEN "" ELSE Lower(Strip(s))

(***************************************************************************)
(* Names fixed by the program.                                             *)
(***************************************************************************)
OriginalGroupings ==
    {"Project Type", "Assay technology type", "Factor", "Organism", "Material type"}

Groupings == OriginalGroupings \cup {"Mission"}

ReconciledGroupings == {"Assay technology type", "Factor", "Organism", "Material type"}

\* A mutant: Factor's fallback named like the other three.
FallbackMutantFactor(grouping) ==
    CASE grouping = "Assay technology type" -> "Other Assay Types"
      [] grouping = "Factor" -> "Other Factors"
      [] grouping = "Organism" -> "Other Organisms"
      [] grouping = "Material type" -> "Other Materials"
      [] grouping = "Mission" -> "Other Missions"

\* The category the no-match branch of each grouping inserts into.
Fallback(grouping) ==
    CASE grouping = "Assay technology type" -> "Other Assay Types"
      [] grouping = "Factor" -> "other"
      [] grouping = "Organism" -> "Other Organisms"
      [] grouping = "Material type" -> "Other Materials"
      [] grouping = "Mission" -> "Other Missions"

AssayColumn == "investigation.study assays.study assay technology type"
OrganismColumn == "study.characteristics.organism"
MaterialColumn == "study.characteristics.material type"
MissionColumn == "investigation.study.comment.project identifier"

\* [:5] and "- 5" of the unmapped report.
ShownIds == 5

(***************************************************************************)
(* python containers.                                                      *)
(***************************************************************************)
Range(seq) == {seq[k] : k \in DOMAIN seq}

Min(S) == CHOOSE m \in S : \A n \in S : m <= n

\* list.index(x): 0 stands for the ValueError of an absent element.
IndexOf(seq, e) ==
    IF e \in Range(seq) THEN Min({k \in DOMAIN seq : seq[k] = e}) ELSE 0

\* Ordered dict category -> set (the snapshot index of one grouping).
OHas(d, category) == \E k \in DOMAIN d : d[k].category = category

OEnsure(d, category) ==
    IF OHas(d, category) THEN d ELSE Append(d, [category |-> category, values |-> {}])

OAddAll(d, category, vals) ==
    [k \in DOMAIN d |->
        IF d[k].category = category
        THEN [d[k] EXCEPT !.values = @ \cup vals]
        ELSE d[k]]

OValues(d) == UNION {d[k].values : k \in DOMAIN d}

\* defaultdict(set) category -> set (the output index of one grouping).
DGet(d, category) == IF category \in DOMAIN d THEN d[category] ELSE {}

DValues(d) == UNION {d[c] : c \in DOMAIN d}

\* d[category].add(value)
DAdd(d, category, value) ==
    [c \in (DOMAIN d) \cup {category} |->
        IF c = category THEN DGet(d, category) \cup {value} ELSE d[c]]

EmptyDict == [c \in {} |-> {}]

(***************************************************************************)
(* extract_existing_structure                                              *)
(***************************************************************************)
\* node.get('displayValue', node.get('values', [''])[0] if node.get('values') else '')
NodeName(node) ==
    IF "displayValue" \in node.keys THEN node.displayValue
    ELSE IF node.values # <<>> THEN node.values[1]
    ELSE ""

Truthy(vals) == {v \in Range(vals) : v # ""}

IdentifyGrouping(item) ==
    IF "Project Type" \in Range(item.values) THEN "Project Type"
    ELSE IF Contains("Assay Type", item.displayValue)
            \/ "Study Assay Technology Type" \in Range(item.values)
         THEN "Assay technology type"
    ELSE IF "organism" \in Range(item.values) THEN "Organism"
    ELSE IF Contains("Tissue", item.displayValue) \/ "material type" \in Range(item.values)
         THEN "Material type"
    ELSE IF Contains("Factor", item.displayValue) \/ "Study Factor Name" \in Range(item.values)
         THEN "Factor"
    ELSE ""

RECURSIVE ExtractSubchildren(_, _, _, _)
ExtractSubchildren(d, category, subs, k) ==
    IF k > Len(subs) THEN d
    ELSE LET full_category == category \o "|" \o NodeName(subs[k])
         IN ExtractSubchildren(
                OAddAll(OEnsure(d, full_category), full_category, Truthy(subs[k].values)),
                category, subs, k + 1)

ExtractChild(d, child) ==
    LET name == NodeName(child)
        category == IF name = "" THEN "Uncategorized" ELSE name
    IN ExtractSubchildren(
           OAddAll(OEnsure(d, category), category, Truthy(child.values)),
           category, child.children, 1)

RECURSIVE ExtractChildren(_, _, _)
ExtractChildren(d, children, k) ==
    IF k > Len(children) THEN d
    ELSE ExtractChildren(ExtractChild(d, children[k]), children, k + 1)

RECURSIVE ExtractItems(_, _, _)
ExtractItems(structure, study, k) ==
    IF k > Len(study) THEN structure
    ELSE LET grouping == IdentifyGrouping(study[k])
         IN IF grouping = "" THEN ExtractItems(structure, study, k + 1)
            ELSE ExtractItems(
                     [structure EXCEPT
                         ![grouping] = ExtractChildren(@, study[k].children, 1)],
                     study, k + 1)

ExtractExistingStructure(json) ==
    ExtractItems([g \in OriginalGroupings |-> <<>>], json.study, 1)

(***************************************************************************)
(* initialize_from_existing                                                *)
(***************************************************************************)
InitializeMutantNoCopy(existing) ==
    [g \in Groupings |->
        IF g \in DOMAIN existing
        THEN [c \in {existing[g][k].category : k \in DOMAIN existing[g]} |-> {}]
        ELSE EmptyDict]

InitializeFromExisting(existing) ==
    [g \in Groupings |->
        IF g \in DOMAIN existing
        THEN [c \in {existing[g][k].category : k \in DOMAIN existing[g]} |->
                 existing[g][CHOOSE k \in DOMAIN existing[g] :
                                 existing[g][k].category = c].values]
        ELSE EmptyDict]

(***************************************************************************)
(* The taxonomy documents and the observation values the model draws from. *)
(***************************************************************************)
Leaf(label, vals) ==
    [keys |-> {"displayValue"}, displayValue |-> label, values |-> vals, children |-> <<>>]

Unlabelled(vals) ==
    [keys |-> {}, displayValue |-> "", values |-> vals, children |-> <<>>]

Item(label, markers, children) ==
    [displayValue |-> label, values |-> markers, children |-> children]

\* One category per grouping; Factor already has a category named "other".
DocPlain ==
    [study |-> <<
        Item("Project Type", <<"Project Type">>, <<Leaf("Spaceflight Study", <<"Spaceflight Study">>)>>),
        Item("Assay Type", <<"Study Assay Technology Type">>, <<Leaf("Sequencing", <<"RNA-Seq">>)>>),
        Item("Organism", <<"organism">>, <<Leaf("Rodents", <<"Mus musculus">>)>>),
        Item("Tissue", <<"material type">>, <<Leaf("Organs", <<"Liver">>)>>),
        Item("Factor", <<"Study Factor Name">>,
             <<Leaf("Flight", <<"Spaceflight">>), Leaf("other", <<"Diet">>)>>),
        Item("Data Source", <<"data source">>, <<Leaf("cgene", <<"cgene">>)>>) >>]

\* Two categories holding the same value under normalization, nested
\* children, and children without a label or without values.
DocNested ==
    [study |-> <<
        Item("Assay Type", <<>>,
             <<[keys |-> {"displayValue"}, displayValue |-> "Omics", values |-> <<"RNA-Seq", "">>,
                children |-> <<Leaf("Arrays", <<"Microarray">>), Unlabelled(<<"rna-seq ">>),
                               Unlabelled(<<>>)>>]>>),
        Item("Organism", <<"organism">>,
             <<Leaf("Rodents", <<"Mus musculus">>), Leaf("Mammals", <<"mus musculus ">>),
               Leaf("Other Organisms", <<"Yeast">>)>>),
        Item("Material", <<"material type">>,
             <<Unlabelled(<<"Liver", "Bone">>), Leaf("", <<"Skin">>), Unlabelled(<<>>)>>),
        Item("Study Factor", <<>>, <<Leaf("Flight", <<"Spaceflight">>)>>) >>]

DocEmpty == [study |-> <<>>]

Docs == {DocPlain, DocNested, DocEmpty}


AssayValues == {"RNA-Seq", "rna-seq", "Quantum Flux Sequencing", ""}
OrganismValues == {"Mus musculus", "mus musculus", "Rattus norvegicus", ""}
MaterialValues == {"Liver", " liver", "Cells", ""}
FactorColumnNames ==
    {"study.factor value.Spaceflight", "assay.Factor Value.diet",
     "study.factor value.Altitude", "study.factor value."}
MissionValues == {"RR-5, Expedition 45", "Foo, ,Foo", "SpaceX Crew", ""}

IdColumn == "id.accession"

\* The subject-identifier of the k-th row of a feed: an opaque string the
\* program records and never compares, distinct from row to row here.
OsdId(k) == "OSD-" \o Char("123456789", k)

RowsOf(vals) == [k \in DOMAIN vals |-> <<OsdId(k), vals[k]>>]

NoFeed == [columns |-> <<>>, data |-> <<>>]

(***************************************************************************)
(* State.                                                                  *)
(***************************************************************************)
VARIABLES
    pc,                 \* where the run is
    i,                  \* position of the loop of the section pc names
    pass,               \* number of the call of process_api_data under way
    current_json,       \* self.current_json
    assay_data,         \* self.assay_data
    factor_data,        \* self.factor_data
    organism_data,      \* self.organism_data
    material_data,      \* self.material_data
    mission_data,       \* self.mission_data
    existing_structure, \* self.existing_structure
    new_json,           \* self.new_json
    additions,          \* self.additions
    unmapped,           \* self.unmapped
    all_osd_ids,        \* self.all_osd_ids
    verified,           \* verify_completeness has returned
    is_complete,        \* its result
    artifacts,          \* the output files written
    unmapped_report,    \* unique_unmapped of each grouping, as written
    exit_code,          \* -1 while the process runs
    error               \* the exception that reached main, or "none"

inputs == <<current_json, assay_data, factor_data, organism_data, material_data, mission_data>>
tracking == <<new_json, additions, unmapped, all_osd_ids>>
outcome == <<verified, is_complete, artifacts, unmapped_report, exit_code, error>>
vars == <<pc, i, pass, inputs, existing_structure, tracking, outcome>>

Init ==
    /\ pc = "download"
    /\ i = 0
    /\ pass = 0
    /\ current_json = DocEmpty
    /\ assay_data = NoFeed
    /\ factor_data = NoFeed
    /\ organism_data = NoFeed
    /\ material_data = NoFeed
    /\ mission_data = NoFeed
    /\ existing_structure = [g \in OriginalGroupings |-> <<>>]
    /\ new_json = [g \in Groupings |-> EmptyDict]
    /\ additions = <<>>
    /\ unmapped = <<>>
    /\ all_osd_ids = {}
    /\ verified = FALSE
    /\ is_complete = FALSE
    /\ artifacts = {}
    /\ unmapped_report = {}
    /\ exit_code = -1
    /\ error = "none"

(***************************************************************************)
(* main: sys.exit(0 if success else 1), and the except branch.             *)
(***************************************************************************)
ExitCodeMutantUnmapped(success) == IF success /\ unmapped = <<>> THEN 0 ELSE 1

ExitCode(success) == IF success THEN 0 ELSE 1

\* An exception propagates to main, which prints it and exits 1.
Raise(e) ==
    /\ pc' = "exit"
    /\ error' = e
    /\ exit_code' = 1

(***************************************************************************)
(* __init__: the download and the five fetches.                            *)
(***************************************************************************)
FetchErrors == {"RequestException", "JSONDecodeError", "ValueError"}

\* The content of a response is drawn when the program first reads it, at
\* the head of its section of process_api_data: nothing reads or changes a
\* response between its fetch and that point.  Until then the feed is NoFeed.
Drawn(feed, responses) == IF feed = NoFeed THEN responses ELSE {feed}

\* Rows the responses drawn so far hold; the model draws MaxRows in all.
Fetched ==
    Len(assay_data.data) + Len(organism_data.data) + Len(material_data.data)
    + Len(mission_data.data)
    + (IF factor_data.columns = <<>> THEN 0 ELSE Len(factor_data.columns) - 1)

Budget == MaxRows - Fetched

\* The responses fetch_api_data accepts: the required column and up to
\* Budget rows, or a response without the required column.
Responses(column, values) ==
    {[columns |-> <<IdColumn>>, data |-> <<>>]}
    \cup UNION {{[columns |-> <<IdColumn, column>>, data |-> RowsOf(vals)] :
                    vals \in [1..n -> values]} : n \in 0..Budget}

FactorResponses ==
    UNION {{[columns |-> <<IdColumn>> \o cols, data |-> <<>>] :
               cols \in [1..n -> FactorColumnNames]} : n \in 0..Budget}

DownloadCurrentJson ==
    /\ pc = "download"
    /\ \/ /\ \E doc \in Docs : current_json' = doc
          /\ pc' = "fetch_assay"
          /\ UNCHANGED <<exit_code, error>>
       \/ /\ \E e \in {"RequestException", "JSONDecodeError"} : Raise(e)
          /\ UNCHANGED current_json
    /\ UNCHANGED <<i, pass, assay_data, factor_data, organism_data, material_data,
                   mission_data, existing_structure, tracking, verified, is_complete,
                   artifacts, unmapped_report>>

\* fetch_api_data raising: transport, undecodable body, or wrong shape.
\* Each fetch below either raises or returns a response of the right shape.
FetchFails ==
    /\ \E e \in FetchErrors : Raise(e)
    /\ UNCHANGED <<i, pass, inputs, existing_structure, tracking, verified, is_complete,
                   artifacts, unmapped_report>>

FetchAssayData ==
    /\ pc = "fetch_assay"
    /\ \/ /\ pc' = "fetch_factor"
          /\ UNCHANGED <<i, pass, inputs, existing_structure, tracking, outcome>>
       \/ FetchFails

FetchFactorData ==
    /\ pc = "fetch_factor"
    /\ \/ /\ pc' = "fetch_organism"
          /\ UNCHANGED <<i, pass, inputs, existing_structure, tracking, outcome>>
       \/ FetchFails

FetchOrganismData ==
    /\ pc = "fetch_organism"
    /\ \/ /\ pc' = "fetch_material"
          /\ UNCHANGED <<i, pass, inputs, existing_structure, tracking, outcome>>
       \/ FetchFails

FetchMaterialData ==
    /\ pc = "fetch_material"
    /\ \/ /\ pc' = "fetch_mission"
          /\ UNCHANGED <<i, pass, inputs, existing_structure, tracking, outcome>>
       \/ FetchFails

FetchMissionData ==
    /\ pc = "fetch_mission"
    /\ \/ /\ pc' = "extract"
          /\ UNCHANGED <<i, pass, inputs, existing_structure, tracking, outcome>>
       \/ FetchFails

\* The rest of __init__: the snapshot index, the output index, the tracking.
Construct ==
    /\ pc = "extract"
    /\ existing_structure' = ExtractExistingStructure(current_json)
    /\ new_json' = InitializeFromExisting(existing_structure')
    /\ additions' = <<>>
    /\ unmapped' = <<>>
    /\ all_osd_ids' = {}
    /\ pc' = "constructed"
    /\ UNCHANGED <<i, pass, inputs, outcome>>

(***************************************************************************)
(* find_category_for_value, and the insertion both branches perform.       *)
(* None is "": the code tests the result for truth, and no category of     *)
(* the snapshot index has an empty name.                                   *)
(***************************************************************************)
FindCategoryForValue(value, grouping) ==
    IF grouping \notin DOMAIN existing_structure THEN ""
    ELSE LET norm_val == Norm(value)
             d == existing_structure[grouping]
             hits == {k \in DOMAIN d : \E existing_val \in d[k].values :
                                           Norm(existing_val) = norm_val}
         IN IF hits = {} THEN "" ELSE d[Min(hits)].category

\* The state process_api_data changes, as a record.
Tracking(nj, add, unm) == [new_json |-> nj, additions |-> add, unmapped |-> unm]

\* Mutants of Reconcile: an Addition recorded in the no-match branch too; the
\* presence tests dropped; presence tested under normalization.
ReconcileMutantAddsFallback(st, grouping, value, osd_id) ==
    LET category == FindCategoryForValue(value, grouping)
        target == IF category # "" THEN category ELSE Fallback(grouping)
    IN IF value \notin DGet(st.new_json[grouping], target)
       THEN Tracking([st.new_json EXCEPT ![grouping] = DAdd(@, target, value)],
                     Append(st.additions, <<grouping, target, value>>),
                     IF category # "" THEN st.unmapped
                     ELSE Append(st.unmapped, <<grouping, value, osd_id>>))
       ELSE st

ReconcileMutantNoGuard(st, grouping, value, osd_id) ==
    LET category == FindCategoryForValue(value, grouping)
    IN IF category # ""
       THEN Tracking([st.new_json EXCEPT ![grouping] = DAdd(@, category, value)],
                     Append(st.additions, <<grouping, category, value>>),
                     st.unmapped)
       ELSE Tracking([st.new_json EXCEPT ![grouping] = DAdd(@, Fallback(grouping), value)],
                     st.additions,
                     Append(st.unmapped, <<grouping, value, osd_id>>))

ReconcileMutantNormPresence(st, grouping, value, osd_id) ==
    LET category == FindCategoryForValue(value, grouping)
        target == IF category # "" THEN category ELSE Fallback(grouping)
    IN IF Norm(value) \in {Norm(v) : v \in DGet(st.new_json[grouping], target)}
       THEN st
       ELSE IF category # ""
       THEN Tracking([st.new_json EXCEPT ![grouping] = DAdd(@, category, value)],
                     Append(st.additions, <<grouping, category, value>>),
                     st.unmapped)
       ELSE Tracking([st.new_json EXCEPT ![grouping] = DAdd(@, target, value)],
                     st.additions,
                     Append(st.unmapped, <<grouping, value, osd_id>>))

Reconcile(st, grouping, value, osd_id) ==
    LET category == FindCategoryForValue(value, grouping)
    IN IF category # ""
       THEN IF value \notin DGet(st.new_json[grouping], category)
            THEN Tracking([st.new_json EXCEPT ![grouping] = DAdd(@, category, value)],
                          Append(st.additions, <<grouping, category, value>>),
                          st.unmapped)
            ELSE st
       ELSE IF value \notin DGet(st.new_json[grouping], Fallback(grouping))
            THEN Tracking([st.new_json EXCEPT
                              ![grouping] = DAdd(@, Fallback(grouping), value)],
                          st.additions,
                          Append(st.unmapped, <<grouping, value, osd_id>>))
            ELSE st

Now == Tracking(new_json, additions, unmapped)

\* A mutant: the output index shares its sets with the snapshot index
\* (new_json[grouping][category] = values), so an add reaches both.
SnapshotMutantShared(existing, nj) ==
    [g \in DOMAIN existing |->
        [k \in DOMAIN existing[g] |->
            [existing[g][k] EXCEPT !.values = DGet(nj[g], existing[g][k].category)]]]

\* The snapshot index once process_api_data has changed the output index to
\* nj: new_json[grouping][category] = set(values) gave the output index sets
\* of its own, so an add to them leaves the sets of the snapshot index alone.
SnapshotSets(existing, nj) == existing

Becomes(st) ==
    /\ new_json' = st.new_json
    /\ additions' = st.additions
    /\ unmapped' = st.unmapped
    /\ existing_structure' = SnapshotSets(existing_structure, st.new_json)

(***************************************************************************)
(* process_api_data: one action per column lookup and per loop iteration.  *)
(***************************************************************************)
\* A per-row section: skip a falsy value, else cover the id and reconcile.
ProcessRow(feed, column, grouping) ==
    LET row == feed.data[i]
        osd_id == row[1]
        value == row[IndexOf(feed.columns, column)]
    IN IF value = ""
       THEN UNCHANGED <<tracking, existing_structure>>
       ELSE /\ all_osd_ids' = all_osd_ids \cup {osd_id}
            /\ Becomes(Reconcile(Now, grouping, value, osd_id))

\* A mutant: a missing column skips the section instead of raising.
EnterSectionMutantSkip(feed, column, section) ==
    /\ pc' = section
    /\ i' = 1
    /\ UNCHANGED <<exit_code, error>>

\* columns.index(column) at the head of a section.
EnterSection(feed, column, section) ==
    IF IndexOf(feed.columns, column) = 0
    THEN /\ Raise("ValueError")
         /\ UNCHANGED i
    ELSE /\ pc' = section
         /\ i' = 1
         /\ UNCHANGED <<exit_code, error>>

BeginAssays ==
    /\ pc = "constructed"
    /\ pass' = 1
    /\ \E r \in Drawn(assay_data, Responses(AssayColumn, AssayValues)) :
           /\ assay_data' = r
           /\ EnterSection(r, AssayColumn, "assays")
    /\ UNCHANGED <<current_json, factor_data, organism_data, material_data, mission_data,
                   existing_structure, tracking, verified, is_complete, artifacts,
                   unmapped_report>>

AssayRow ==
    /\ pc = "assays"
    /\ i <= Len(assay_data.data)
    /\ ProcessRow(assay_data, AssayColumn, "Assay technology type")
    /\ i' = i + 1
    /\ UNCHANGED <<pc, pass, inputs, outcome>>

\* [col for col in columns if 'factor value' in col.lower()]
FactorCols == SelectSeq(factor_data.columns, LAMBDA col : Contains("factor value", Lower(col)))

BeginFactors ==
    /\ pc = "assays"
    /\ i > Len(assay_data.data)
    /\ \E r \in Drawn(factor_data, FactorResponses) : factor_data' = r
    /\ pc' = "factors"
    /\ i' = 1
    /\ UNCHANGED <<pass, current_json, assay_data, organism_data, material_data,
                   mission_data, existing_structure, tracking, outcome>>

FactorCol ==
    /\ pc = "factors"
    /\ i <= Len(FactorCols)
    /\ LET factor_name == Last(Split(FactorCols[i], "."))
       IN Becomes(Reconcile(Now, "Factor", factor_name, "schema"))
    /\ i' = i + 1
    /\ UNCHANGED <<pc, pass, inputs, all_osd_ids, outcome>>

BeginOrganisms ==
    /\ pc = "factors"
    /\ i > Len(FactorCols)
    /\ \E r \in Drawn(organism_data, Responses(OrganismColumn, OrganismValues)) :
           /\ organism_data' = r
           /\ EnterSection(r, OrganismColumn, "organisms")
    /\ UNCHANGED <<pass, current_json, assay_data, factor_data,
                   material_data, mission_data, existing_structure, tracking, verified,
                   is_complete, artifacts, unmapped_report>>

OrganismRow ==
    /\ pc = "organisms"
    /\ i <= Len(organism_data.data)
    /\ ProcessRow(organism_data, OrganismColumn, "Organism")
    /\ i' = i + 1
    /\ UNCHANGED <<pc, pass, inputs, outcome>>

BeginMaterials ==
    /\ pc = "organisms"
    /\ i > Len(organism_data.data)
    /\ \E r \in Drawn(material_data, Responses(MaterialColumn, MaterialValues)) :
           /\ material_data' = r
           /\ EnterSection(r, MaterialColumn, "materials")
    /\ UNCHANGED <<pass, current_json, assay_data, factor_data,
                   organism_data, mission_data, existing_structure, tracking, verified,
                   is_complete, artifacts, unmapped_report>>

MaterialRow ==
    /\ pc = "materials"
    /\ i <= Len(material_data.data)
    /\ ProcessRow(material_data, MaterialColumn, "Material type")
    /\ i' = i + 1
    /\ UNCHANGED <<pc, pass, inputs, outcome>>

(***************************************************************************)
(* The Missions section.                                                   *)
(***************************************************************************)
IssWords == {"expedition", "increment", "iss"}
ShuttleWords == {"sts-", "sts ", "shuttle", "sls-"}
BionWords == {"bion", "cosmos"}
PayloadWords == {"bric-", "apex-", "veg-", "ffl", "cbtm", "cerise"}
GroundWords == {"ground", "bsl", "baseline"}
RadiationWords ==
    {"gamma_irradiation", "heavy_ion", "hze", "proton_irradiation", "x-ray_irradiation",
     "irradiation", "radiation"}
SimulatedWords ==
    {"hindlimb_unloading", "simulated_microgravity", "simulated_hypergravity",
     "simulated_environmental"}
CommercialWords == {"inspiration4", "axiom", "ax-", "spacex"}

\* A mutant: the Rodent Research test moved ahead of the first two.
MissionCategoryMutantOrder(mission) ==
    LET mission_lower == Norm(mission)
    IN IF StartsWith(mission, "RR-") \/ Contains("rodent research", mission_lower)
       THEN "Rodent Research"
       ELSE IF AnyIn(IssWords, mission_lower) THEN "ISS Expeditions"
       ELSE IF AnyIn(ShuttleWords, mission_lower) THEN "Space Shuttle"
       ELSE IF AnyIn(BionWords, mission_lower) THEN "Bion/Cosmos"
       ELSE IF AnyIn(PayloadWords, mission_lower) THEN "Payload Investigations"
       ELSE IF AnyIn(GroundWords, mission_lower) THEN "Ground Control"
       ELSE IF AnyIn(RadiationWords, mission_lower) THEN "Radiation Studies"
       ELSE IF AnyIn(SimulatedWords, mission_lower) THEN "Simulated Conditions"
       ELSE IF AnyIn(CommercialWords, mission_lower) THEN "Commercial Spaceflight"
       ELSE "Other Missions"

MissionCategory(mission) ==
    LET mission_lower == Norm(mission)
    IN IF AnyIn(IssWords, mission_lower) THEN "ISS Expeditions"
       ELSE IF AnyIn(ShuttleWords, mission_lower) THEN "Space Shuttle"
       ELSE IF StartsWith(mission, "RR-") \/ Contains("rodent research", mission_lower)
            THEN "Rodent Research"
       ELSE IF AnyIn(BionWords, mission_lower) THEN "Bion/Cosmos"
       ELSE IF AnyIn(PayloadWords, mission_lower) THEN "Payload Investigations"
       ELSE IF AnyIn(GroundWords, mission_lower) THEN "Ground Control"
       ELSE IF AnyIn(RadiationWords, mission_lower) THEN "Radiation Studies"
       ELSE IF AnyIn(SimulatedWords, mission_lower) THEN "Simulated Conditions"
       ELSE IF AnyIn(CommercialWords, mission_lower) THEN "Commercial Spaceflight"
       ELSE "Other Missions"

\* [m.strip() for m in missions_str.split(',')]
MissionPieces(missions_str) ==
    LET parts == Split(missions_str, ",")
    IN [k \in DOMAIN parts |-> Strip(parts[k])]

\* A mutant: every inserted piece is recorded as unmapped.
InsertMissionMutantAlways(st, mission, osd_id) ==
    LET category == MissionCategory(mission)
    IN IF mission \notin DGet(st.new_json["Mission"], category)
       THEN Tracking([st.new_json EXCEPT !["Mission"] = DAdd(@, category, mission)],
                     st.additions,
                     Append(st.unmapped, <<"Mission", mission, osd_id>>))
       ELSE st

InsertMission(st, mission, osd_id) ==
    LET category == MissionCategory(mission)
    IN IF mission \notin DGet(st.new_json["Mission"], category)
       THEN Tracking([st.new_json EXCEPT !["Mission"] = DAdd(@, category, mission)],
                     st.additions,
                     IF category = "Other Missions"
                     THEN Append(st.unmapped, <<"Mission", mission, osd_id>>)
                     ELSE st.unmapped)
       ELSE st

RECURSIVE ProcessMissions(_, _, _, _)
ProcessMissions(st, missions, k, osd_id) ==
    IF k > Len(missions) THEN st
    ELSE IF missions[k] = "" THEN ProcessMissions(st, missions, k + 1, osd_id)
    ELSE ProcessMissions(InsertMission(st, missions[k], osd_id), missions, k + 1, osd_id)

BeginMissions ==
    /\ pc = "materials"
    /\ i > Len(material_data.data)
    /\ \E r \in Drawn(mission_data, Responses(MissionColumn, MissionValues)) :
           /\ mission_data' = r
           /\ EnterSection(r, MissionColumn, "missions")
    /\ UNCHANGED <<pass, current_json, assay_data, factor_data,
                   organism_data, material_data, existing_structure, tracking, verified,
                   is_complete, artifacts, unmapped_report>>

MissionRow ==
    /\ pc = "missions"
    /\ i <= Len(mission_data.data)
    /\ LET row == mission_data.data[i]
           osd_id == row[1]
           missions_str == row[IndexOf(mission_data.columns, MissionColumn)]
       IN IF missions_str = ""
          THEN UNCHANGED <<tracking, existing_structure>>
          ELSE /\ all_osd_ids' = all_osd_ids \cup {osd_id}
               /\ Becomes(ProcessMissions(Now, MissionPieces(missions_str), 1, osd_id))
    /\ i' = i + 1
    /\ UNCHANGED <<pc, pass, inputs, outcome>>

\* process_api_data called again on the same object: the lookups that passed
\* in the first call pass again.
ProcessAgain ==
    /\ pc = "missions"
    /\ i > Len(mission_data.data)
    /\ pass < MaxPasses
    /\ pass' = pass + 1
    /\ pc' = "assays"
    /\ i' = 1
    /\ UNCHANGED <<inputs, existing_structure, tracking, outcome>>

(***************************************************************************)
(* verify_completeness                                                     *)
(***************************************************************************)
OriginalValues(existing) ==
    {Norm(val) : val \in UNION {OValues(existing[g]) : g \in DOMAIN existing}}

NewValues(nj) ==
    {Norm(val) : val \in UNION {DValues(nj[g]) : g \in OriginalGroupings \cap DOMAIN nj}}

Missing == OriginalValues(existing_structure) \ NewValues(new_json)

VerifyCompleteness ==
    /\ pc = "missions"
    /\ i > Len(mission_data.data)
    /\ verified' = TRUE
    /\ is_complete' = (Missing = {})
    /\ pc' = "save"
    /\ UNCHANGED <<i, pass, inputs, existing_structure, tracking, artifacts,
                   unmapped_report, exit_code, error>>

(***************************************************************************)
(* save_outputs, then the end of run and of main.                          *)
(***************************************************************************)
OutputFiles == <<"filter-options-new.json", "additions-report.txt", "unmapped-report.txt">>

\* unique_unmapped[val] of a grouping: the ids of its records, in order.
UniqueUnmapped(unm, grouping, val) ==
    LET recs == SelectSeq(unm, LAMBDA r : r[1] = grouping /\ r[2] = val)
    IN [k \in DOMAIN recs |-> recs[k][3]]

ReportEntries(unm) ==
    {LET ids == UniqueUnmapped(unm, r[1], r[2])
     IN [grouping |-> r[1], value |-> r[2], ids |-> ids,
         shown |-> SubSeq(ids, 1, IF Len(ids) < ShownIds THEN Len(ids) ELSE ShownIds),
         more |-> Len(ids) - ShownIds] : r \in Range(unm)}

\* The three writes in order; a write that raises ends the run with the
\* files before it written.
SaveOutputs ==
    /\ pc = "save"
    /\ \/ /\ artifacts' = Range(OutputFiles)
          /\ unmapped_report' = ReportEntries(unmapped)
          /\ pc' = "exit"
          /\ exit_code' = ExitCode(is_complete)
          /\ UNCHANGED error
       \/ /\ \E k \in 0..(Len(OutputFiles) - 1) :
                 artifacts' = {OutputFiles[j] : j \in 1..k}
          /\ Raise("OSError")
          /\ UNCHANGED unmapped_report
    /\ UNCHANGED <<i, pass, inputs, existing_structure, tracking, verified, is_complete>>

Next ==
    \/ DownloadCurrentJson
    \/ FetchAssayData
    \/ FetchFactorData
    \/ FetchOrganismData
    \/ FetchMaterialData
    \/ FetchMissionData
    \/ Construct
    \/ BeginAssays
    \/ AssayRow
    \/ BeginFactors
    \/ FactorCol
    \/ BeginOrganisms
    \/ OrganismRow
    \/ BeginMaterials
    \/ MaterialRow
    \/ BeginMissions
    \/ MissionRow
    \/ VerifyCompleteness
    \/ SaveOutputs

Spec == Init /\ [][Next]_vars

\* The same program with process_api_data callable more than once.
NextTwice == Next \/ ProcessAgain

SpecTwice == Init /\ [][NextTwice]_vars
(***************************************************************************)
(* The Missions section on its own: process_api_data has reached it with   *)
(* an empty snapshot and no other observation, and the Mission feed holds  *)
(* up to MaxRows strings of MissionSamples.                                *)
(***************************************************************************)
MissionSamples ==
    {"RR-5, Expedition 45", "RR-1 ISS", "rr-9", "Rodent Research 3 (STS-131)",
     "STS-135", "Cosmos Shuttle", "Bion-M1", "BRIC-19, Bion", "Baseline Radiation",
     "HZE", "hindlimb_unloading", "simulated_microgravity ground", "SpaceX Mission",
     "Axiom, ,Foo", " Inspiration4 ,", "Foo,foo,Foo"}

EmptyFeed(column) == [columns |-> <<IdColumn, column>>, data |-> <<>>]

InitMissions ==
    /\ pc = "missions"
    /\ i = 1
    /\ pass = 1
    /\ current_json = DocEmpty
    /\ assay_data = EmptyFeed(AssayColumn)
    /\ factor_data = [columns |-> <<IdColumn>>, data |-> <<>>]
    /\ organism_data = EmptyFeed(OrganismColumn)
    /\ material_data = EmptyFeed(MaterialColumn)
    /\ \E n \in 0..MaxRows : \E vals \in [1..n -> MissionSamples] :
           mission_data = [columns |-> <<IdColumn, MissionColumn>>, data |-> RowsOf(vals)]
    /\ existing_structure = ExtractExistingStructure(DocEmpty)
    /\ new_json = InitializeFromExisting(existing_structure)
    /\ additions = <<>>
    /\ unmapped = <<>>
    /\ all_osd_ids = {}
    /\ verified = FALSE
    /\ is_complete = FALSE
    /\ artifacts = {}
    /\ unmapped_report = {}
    /\ exit_code = -1
    /\ error = "none"

NextMissions == MissionRow \/ VerifyCompleteness

SpecMissions == InitMissions /\ [][NextMissions]_vars

(***************************************************************************)
(* What the run has observed so far, read off the feeds and the position.  *)
(***************************************************************************)
SectionNames == <<"assays", "factors", "organisms", "materials", "missions">>

HasColumn(feed, column) == IndexOf(feed.columns, column) # 0

ColumnMissing ==
    \/ ~HasColumn(assay_data, AssayColumn)
    \/ ~HasColumn(organism_data, OrganismColumn)
    \/ ~HasColumn(material_data, MaterialColumn)
    \/ ~HasColumn(mission_data, MissionColumn)

\* The section whose column lookup raises, when one does.
FailingSection ==
    IF ~HasColumn(assay_data, AssayColumn) THEN 1
    ELSE IF ~HasColumn(organism_data, OrganismColumn) THEN 3
    ELSE IF ~HasColumn(material_data, MaterialColumn) THEN 4
    ELSE 5

\* The section the first call of process_api_data is in: 0 before it, 6 after.
SectionNo ==
    IF pass = 0 THEN 0
    ELSE IF \E k \in DOMAIN SectionNames : pc = SectionNames[k]
         THEN CHOOSE k \in DOMAIN SectionNames : pc = SectionNames[k]
    ELSE IF verified THEN 6
    ELSE FailingSection

\* How many of the n items of section k have been processed.
Seen(k, n) ==
    IF pass >= 2 \/ SectionNo > k THEN n
    ELSE IF SectionNo = k /\ pc = SectionNames[k] THEN i - 1
    ELSE 0

FeedOf(grouping) ==
    CASE grouping = "Assay technology type" -> assay_data
      [] grouping = "Organism" -> organism_data
      [] grouping = "Material type" -> material_data
      [] grouping = "Mission" -> mission_data

SectionOf(grouping) ==
    CASE grouping = "Assay technology type" -> 1
      [] grouping = "Factor" -> 2
      [] grouping = "Organism" -> 3
      [] grouping = "Material type" -> 4
      [] grouping = "Mission" -> 5

RowGroupings == {"Assay technology type", "Organism", "Material type"}

\* The processed rows of a per-row feed, as <<subject-identifier, value>>.
SeenRows(grouping) ==
    LET data == FeedOf(grouping).data
    IN {data[k] : k \in 1..Seen(SectionOf(grouping), Len(data))}

FactorNamesSeen ==
    {Last(Split(FactorCols[k], ".")) : k \in 1..Seen(2, Len(FactorCols))}

\* The raw values of a reconciled grouping the run has acted on.
Observed(grouping) ==
    IF grouping = "Factor" THEN FactorNamesSeen
    ELSE {r[2] : r \in SeenRows(grouping)} \ {""}

\* The non-empty trimmed pieces of the processed Mission rows.
PiecesOf(missions_str) == Range(MissionPieces(missions_str)) \ {""}

ObservedPieces == UNION {PiecesOf(r[2]) : r \in SeenRows("Mission")}

\* The snapshot categories of a grouping holding a value equal to v under
\* normalization, as positions in insertion order.
SnapshotHits(grouping, v) ==
    {k \in DOMAIN existing_structure[grouping] :
        \E e \in existing_structure[grouping][k].values : Norm(e) = Norm(v)}

SnapshotSet(grouping, category) ==
    UNION {existing_structure[grouping][k].values :
              k \in {j \in DOMAIN existing_structure[grouping] :
                        existing_structure[grouping][j].category = category}}

Count(seq, Test(_)) == Cardinality({k \in DOMAIN seq : Test(seq[k])})

UnmappedCount(grouping, v) == Count(unmapped, LAMBDA u : u[1] = grouping /\ u[2] = v)

AdditionCount(grouping, v) == Count(additions, LAMBDA a : a[1] = grouping /\ a[3] = v)

(***************************************************************************)
(* C1: every value of the five original groupings of the snapshot index    *)
(* has, at every step, a value in the same grouping of the output index    *)
(* equal to it under normalization; so verify_completeness computes an     *)
(* empty set of missing values and returns True.                           *)
(***************************************************************************)
C1_Completeness ==
    /\ \A g \in OriginalGroupings : \A v \in OValues(existing_structure[g]) :
           \E w \in DValues(new_json[g]) : Norm(w) = Norm(v)
    /\ Missing = {}
    /\ verified => is_complete

C1_Witness ==
    /\ verified /\ is_complete
    /\ additions # <<>>
    /\ unmapped # <<>>
    /\ \A g \in OriginalGroupings : OValues(existing_structure[g]) # {}

(***************************************************************************)
(* C2: the process exits 0 exactly when verification was reached, found    *)
(* nothing missing and no error was raised at any stage; it exits 1 when   *)
(* verification found a missing value or an error was raised (download,    *)
(* fetch, validation, missing column, saving); the numbers of additions    *)
(* and of unmapped items play no part.                                     *)
(***************************************************************************)
C2_ExitCode ==
    /\ pc # "exit" => exit_code = -1
    /\ pc = "exit" =>
          /\ exit_code \in {0, 1}
          /\ exit_code = 0 <=> (verified /\ Missing = {} /\ error = "none")
          /\ exit_code = 1 <=> ((verified /\ Missing # {}) \/ error # "none")

C2_Witness ==
    /\ pc = "exit"
    /\ exit_code = 0
    /\ additions # <<>>
    /\ unmapped # <<>>

(***************************************************************************)
(* C3, as claimed: at the end of the run the three artifacts are written   *)
(* exactly when the reconciliation pass completed, and none is written     *)
(* otherwise.                                                              *)
(***************************************************************************)
C3_WrittenIffReconciled ==
    pc = "exit" =>
        /\ artifacts = Range(OutputFiles) <=> verified
        /\ ~verified => artifacts = {}

(***************************************************************************)
(* C3, amended: no artifact is written before the reconciliation pass has  *)
(* completed; a run that ends on a fetch error or with a required column   *)
(* missing from any feed writes none; a run whose reconciliation completed *)
(* writes all three whatever verification returned, unless a write itself  *)
(* raises, which leaves exactly the files written before it.               *)
(***************************************************************************)
C3_WrittenAfterReconciliation ==
    /\ artifacts # {} => verified
    /\ pc = "exit" /\ (ColumnMissing \/ ~verified) => artifacts = {}
    /\ pc = "exit" /\ verified =>
          IF error = "none"
          THEN artifacts = Range(OutputFiles)
          ELSE /\ error = "OSError"
               /\ \E k \in 0..(Len(OutputFiles) - 1) :
                      artifacts = {OutputFiles[j] : j \in 1..k}

\* A later feed lacks its column after an earlier section changed the output.
C3_Witness ==
    /\ pc = "exit"
    /\ error = "ValueError"
    /\ HasColumn(assay_data, AssayColumn)
    /\ additions # <<>>
    /\ artifacts = {}

(***************************************************************************)
(* C4, as claimed: no Addition Record has the fallback category of its     *)
(* grouping as its category.                                               *)
(***************************************************************************)
C4_NoAdditionInFallback ==
    \A k \in DOMAIN additions : additions[k][2] # Fallback(additions[k][1])

(***************************************************************************)
(* C4, amended: no Addition Record is emitted for a value that had no      *)
(* normalized match: the category of every Addition is a snapshot category *)
(* holding a value equal to the added one under normalization (which is    *)
(* the fallback-named category when the snapshot has that category), and   *)
(* no value has both an Addition and an Unmapped Record in a grouping.     *)
(***************************************************************************)
C4_AdditionsAreMatches ==
    \A k \in DOMAIN additions :
        LET g == additions[k][1]
            c == additions[k][2]
            v == additions[k][3]
        IN /\ g \in ReconciledGroupings
           /\ \E e \in SnapshotSet(g, c) : Norm(e) = Norm(v)
           /\ UnmappedCount(g, v) = 0

\* An Addition into a snapshot category named like the fallback, next to an
\* Unmapped Record of the same grouping.
C4_Witness ==
    \E k \in DOMAIN additions : \E u \in Range(unmapped) :
        /\ u[1] = additions[k][1]
        /\ additions[k][2] = Fallback(additions[k][1])

(***************************************************************************)
(* C5: the unmapped list holds exactly one record for each raw value the   *)
(* run routed to a fallback category for lack of a match (in the four      *)
(* reconciled groupings: no snapshot value of the grouping equals it under *)
(* normalization; in Mission: none of the nine named rules matches it),    *)
(* however many rows repeat the value, and no record for any other value.  *)
(***************************************************************************)
NamedRuleMatches(m) ==
    \/ AnyIn(IssWords, Norm(m))
    \/ AnyIn(ShuttleWords, Norm(m))
    \/ StartsWith(m, "RR-") \/ Contains("rodent research", Norm(m))
    \/ AnyIn(BionWords, Norm(m))
    \/ AnyIn(PayloadWords, Norm(m))
    \/ AnyIn(GroundWords, Norm(m))
    \/ AnyIn(RadiationWords, Norm(m))
    \/ AnyIn(SimulatedWords, Norm(m))
    \/ AnyIn(CommercialWords, Norm(m))

Routed(grouping) ==
    IF grouping = "Mission" THEN {m \in ObservedPieces : ~NamedRuleMatches(m)}
    ELSE {v \in Observed(grouping) : SnapshotHits(grouping, v) = {}}

C5_UnmappedOnce ==
    /\ \A u \in Range(unmapped) : UnmappedCount(u[1], u[2]) = 1
    /\ \A g \in ReconciledGroupings \cup {"Mission"} :
           {u[2] : u \in {r \in Range(unmapped) : r[1] = g}} = Routed(g)
    /\ \A u \in Range(unmapped) : u[1] \in ReconciledGroupings \cup {"Mission"}

\* An unmatched value seen in two rows under different subject-identifiers,
\* and a Mission piece of a named category beside an unmapped one.
C5_Witness ==
    \/ \E g \in RowGroupings : \E r1, r2 \in SeenRows(g) :
           /\ r1[1] # r2[1]
           /\ r1[2] = r2[2]
           /\ r1[2] \in Routed(g)
    \/ /\ Routed("Mission") # {}
       /\ ObservedPieces \ Routed("Mission") # {}
       /\ pc = "save"

(***************************************************************************)
(* C6: a second call of process_api_data on the same object, with the same *)
(* five observation sets, changes neither the output index nor the         *)
(* additions list nor the unmapped list.                                   *)
(***************************************************************************)
C6_SecondPassChangesNothing ==
    [][pass' >= 2 => /\ new_json' = new_json
                     /\ additions' = additions
                     /\ unmapped' = unmapped]_vars

C6_Witness ==
    /\ pass = 2
    /\ pc = "save"
    /\ additions # <<>>
    /\ unmapped # <<>>
    /\ DOMAIN new_json["Mission"] # {}

(***************************************************************************)
(* C7: every non-empty trimmed piece of a processed Mission string is in   *)
(* the category of the first rule, in the fixed order, whose test it       *)
(* passes ("Other Missions" when it passes none) and in no other category; *)
(* the Mission grouping holds nothing else; "RR-5, Expedition 45" puts     *)
(* "RR-5" in Rodent Research and "Expedition 45" in ISS Expeditions.       *)
(***************************************************************************)
MissionRuleOrder ==
    <<"ISS Expeditions", "Space Shuttle", "Rodent Research", "Bion/Cosmos",
      "Payload Investigations", "Ground Control", "Radiation Studies",
      "Simulated Conditions", "Commercial Spaceflight", "Other Missions">>

MissionRuleHolds(k, m) ==
    CASE k = 1 -> AnyIn(IssWords, Norm(m))
      [] k = 2 -> AnyIn(ShuttleWords, Norm(m))
      [] k = 3 -> StartsWith(m, "RR-") \/ Contains("rodent research", Norm(m))
      [] k = 4 -> AnyIn(BionWords, Norm(m))
      [] k = 5 -> AnyIn(PayloadWords, Norm(m))
      [] k = 6 -> AnyIn(GroundWords, Norm(m))
      [] k = 7 -> AnyIn(RadiationWords, Norm(m))
      [] k = 8 -> AnyIn(SimulatedWords, Norm(m))
      [] k = 9 -> AnyIn(CommercialWords, Norm(m))
      [] OTHER -> TRUE

FirstRule(m) == Min({k \in DOMAIN MissionRuleOrder : MissionRuleHolds(k, m)})

C7_FirstMatchPriority ==
    /\ DOMAIN new_json["Mission"] \subseteq Range(MissionRuleOrder)
    /\ DValues(new_json["Mission"]) = ObservedPieces
    /\ \A m \in ObservedPieces : \A c \in Range(MissionRuleOrder) :
           m \in DGet(new_json["Mission"], c) <=> c = MissionRuleOrder[FirstRule(m)]
    /\ (\E r \in SeenRows("Mission") : r[2] = "RR-5, Expedition 45") =>
           /\ "RR-5" \in DGet(new_json["Mission"], "Rodent Research")
           /\ "Expedition 45" \in DGet(new_json["Mission"], "ISS Expeditions")

\* The example beside a piece that passes the tests of several rules.
C7_Witness ==
    /\ "RR-5" \in DGet(new_json["Mission"], "Rodent Research")
    /\ "Expedition 45" \in DGet(new_json["Mission"], "ISS Expeditions")
    /\ \E m \in ObservedPieces :
           Cardinality({k \in 1..9 : MissionRuleHolds(k, m)}) >= 2

(***************************************************************************)
(* C8: in each of the four reconciled groupings a non-empty observed value *)
(* equal under normalization to no snapshot value of the grouping is in    *)
(* the grouping's fallback category ("Other Assay Types", "other", "Other  *)
(* Organisms", "Other Materials"), with exactly one Unmapped Record and no *)
(* Addition Record.                                                        *)
(***************************************************************************)
C8_FallbackName ==
    [g \in ReconciledGroupings |->
        CASE g = "Assay technology type" -> "Other Assay Types"
          [] g = "Factor" -> "other"
          [] g = "Organism" -> "Other Organisms"
          [] g = "Material type" -> "Other Materials"]

C8_FallbackRouting ==
    \A g \in ReconciledGroupings : \A v \in Observed(g) \ {""} :
        SnapshotHits(g, v) = {} =>
            /\ v \in DGet(new_json[g], C8_FallbackName[g])
            /\ UnmappedCount(g, v) = 1
            /\ AdditionCount(g, v) = 0

\* An unmatched value routed in Factor and in a per-row grouping, the
\* snapshot not being empty.
C8_Witness ==
    /\ \E v \in Observed("Factor") \ {""} : SnapshotHits("Factor", v) = {}
    /\ \E g \in RowGroupings : \E v \in Observed(g) :
           SnapshotHits(g, v) = {} /\ existing_structure[g] # <<>>

(***************************************************************************)
(* C9, as claimed: the data behind each entry of the unmapped report holds *)
(* the subject-identifiers of all n rows where the value was observed, the *)
(* first min(n, 5) being shown and n - 5 counted as further occurrences.   *)
(***************************************************************************)
RowsObserving(grouping, v) ==
    IF grouping = "Mission"
    THEN {r \in SeenRows("Mission") : v \in PiecesOf(r[2])}
    ELSE {r \in SeenRows(grouping) : r[2] = v}

C9_AllIdsReported ==
    "unmapped-report.txt" \in artifacts =>
        \A e \in unmapped_report : e.grouping # "Factor" =>
            LET n == Cardinality(RowsObserving(e.grouping, e.value))
            IN /\ Range(e.ids) = {r[1] : r \in RowsObserving(e.grouping, e.value)}
               /\ Len(e.ids) = n
               /\ Len(e.shown) = (IF n < ShownIds THEN n ELSE ShownIds)
               /\ e.more = n - ShownIds

(***************************************************************************)
(* C10: an observed value equal under normalization to a snapshot value is *)
(* handled in the first snapshot category, in insertion order, holding     *)
(* such a value: it is in that category's output set, beside every         *)
(* snapshot value of the category; it has exactly one Addition Record, for *)
(* that category, when it was not already a snapshot value of the category *)
(* and none when it was; it has no Unmapped Record and enters no other     *)
(* category.  Snapshot Rodents = {"Mus musculus"} with "mus musculus"      *)
(* observed gives both raw entries and one Addition.                       *)
(***************************************************************************)
C10_MatchedInsertion ==
    \A g \in ReconciledGroupings : \A v \in Observed(g) :
        SnapshotHits(g, v) # {} =>
            LET c == existing_structure[g][Min(SnapshotHits(g, v))].category
            IN /\ v \in DGet(new_json[g], c)
               /\ SnapshotSet(g, c) \subseteq DGet(new_json[g], c)
               /\ Count(additions, LAMBDA a : a = <<g, c, v>>)
                      = (IF v \in SnapshotSet(g, c) THEN 0 ELSE 1)
               /\ AdditionCount(g, v) = (IF v \in SnapshotSet(g, c) THEN 0 ELSE 1)
               /\ UnmappedCount(g, v) = 0
               /\ \A d \in DOMAIN new_json[g] :
                      d # c /\ v \in new_json[g][d] => v \in SnapshotSet(g, d)

\* The example, with a second snapshot category that matches as well.
C10_Witness ==
    /\ Cardinality(SnapshotHits("Organism", "mus musculus")) >= 2
    /\ {"Mus musculus", "mus musculus"} \subseteq DGet(new_json["Organism"], "Rodents")
    /\ AdditionCount("Organism", "mus musculus") = 1
    /\ "Mus musculus" \in Observed("Organism")

(***************************************************************************)
(* The snapshot index exists: __init__ has run extract_existing_structure. *)
(***************************************************************************)
Built == pc = "constructed" \/ pass >= 1

\* The name the fallback chain of C11 gives a node: its display label if
\* non-empty, else its first raw value if it has one, else "Uncategorized".
ChainName(node) ==
    IF "displayValue" \in node.keys /\ node.displayValue # "" THEN node.displayValue
    ELSE IF node.values # <<>> /\ node.values[1] # "" THEN node.values[1]
    ELSE "Uncategorized"

\* The recognized entries of the taxonomy document, as positions.
Recognized == {n \in DOMAIN current_json.study : IdentifyGrouping(current_json.study[n]) # ""}

(***************************************************************************)
(* C11, as claimed: the name of every child of a recognized entry, and of  *)
(* every grandchild, follows the same chain (display label if non-empty,   *)
(* else first raw value, else "Uncategorized"): the snapshot index has the *)
(* category so named for each child and the compound category              *)
(* "<category>|<subcategory>" so named for each grandchild, holding the    *)
(* node's non-empty values.                                                *)
(***************************************************************************)
C11_NameFallbackChain ==
    Built =>
        \A n \in Recognized :
            LET item == current_json.study[n]
                grouping == IdentifyGrouping(item)
            IN \A c \in DOMAIN item.children :
                   LET child == item.children[c]
                       category == ChainName(child)
                   IN /\ OHas(existing_structure[grouping], category)
                      /\ Truthy(child.values) \subseteq SnapshotSet(grouping, category)
                      /\ \A s \in DOMAIN child.children :
                             LET subchild == child.children[s]
                                 full_category == category \o "|" \o ChainName(subchild)
                             IN /\ OHas(existing_structure[grouping], full_category)
                                /\ Truthy(subchild.values)
                                       \subseteq SnapshotSet(grouping, full_category)

(***************************************************************************)
(* C12, as claimed: in the four reconciled groupings an empty observed     *)
(* value is skipped, the factor name "" of a column name ending in "."     *)
(* included: the empty string is in no set of the output index of these    *)
(* groupings (the snapshot index never holds it), and no Addition Record   *)
(* and no Unmapped Record carries it.                                      *)
(***************************************************************************)
C12_EmptySkipped ==
    \A g \in ReconciledGroupings :
        /\ "" \notin DValues(new_json[g])
        /\ AdditionCount(g, "") = 0
        /\ UnmappedCount(g, "") = 0

\* Every category of the index old is a category of the index new, with a
\* superset of its values.
Grows(old, new) ==
    \A g \in DOMAIN old :
        /\ g \in DOMAIN new
        /\ \A c \in DOMAIN old[g] :
               c \in DOMAIN new[g] /\ old[g][c] \subseteq new[g][c]

(***************************************************************************)
(* C13: once constructed, no step of process_api_data (called once or      *)
(* again), verify_completeness or the output generation changes the        *)
(* snapshot index, while the output index initialized from it is mutated;  *)
(* and the output index only grows: after every step each category is      *)
(* still there with a superset of its values.                              *)
(***************************************************************************)
C13_SnapshotReadOnly ==
    [][Built => /\ existing_structure' = existing_structure
                /\ Grows(new_json, new_json')]_vars

\* The outputs are written after two calls that put a value beside the
\* snapshot values of a category and opened a category the snapshot lacks.
C13_Witness ==
    /\ pass >= 2
    /\ "filter-options-new.json" \in artifacts
    /\ existing_structure = ExtractExistingStructure(current_json)
    /\ \E g \in OriginalGroupings : \E k \in DOMAIN existing_structure[g] :
           /\ existing_structure[g][k].values # {}
           /\ existing_structure[g][k].values # new_json[g][existing_structure[g][k].category]
    /\ \E g \in OriginalGroupings : \E c \in DOMAIN new_json[g] :
           ~OHas(existing_structure[g], c)
====
